---------------------------- MODULE Spec2Model ----------------------------
(***************************************************************************)
(* Model of the hazana load runner (package hazana, type runner).          *)
(*                                                                         *)
(* Tasks: the runner goroutine (Run -> run -> rampUp -> fullAttack ->      *)
(* quitAttackers -> tearDownAttackers -> reportMetrics), one attack        *)
(* goroutine per registered attacker, and the collectResults goroutine.    *)
(* The three channels next, quit and results are unbuffered: a send and    *)
(* the matching receive are one step (a rendezvous).                       *)
(*                                                                         *)
(* The call r.resultsPipeline(<-r.results) is modelled as the gc compiler  *)
(* builds it: the receive first, then the load of the function value and   *)
(* the call.                                                               *)
(*                                                                         *)
(* Specifications: Spec (runs without a per-call timeout), SpecTimeout     *)
(* (runs with one), SpecFair (both, under fair scheduling), SpecAgg        *)
(* (addResult on a sequence of outcomes), SpecRps (the rate of a linear    *)
(* ramp-up step), SpecRamp (the pool growth at the end of a step).         *)
(***************************************************************************)
EXTENDS Integers, Sequences, FiniteSets, TLC

\* ------------------------------------------------------------------ bounds
MaxRPS == 2          \* largest configured RPS
MaxRamp == 1         \* largest configured RampupTimeSec
MaxPool == 2         \* largest configured MaxAttackers
MaxSends == 1        \* dispatches the clock admits in one dispatcher loop
MaxSample == 3       \* largest value of the sample flag
MaxRateN == 3        \* largest measured rate, in units of 1/RateDen per second
MaxSeq == 3          \* longest outcome sequence fed to addResult (SpecAgg)
MaxStepRPS == 6      \* largest target rate of the step-rate specification
MaxSteps == 5        \* most ramp-up seconds of the step-rate specification
MaxGrowPool == 4     \* largest MaxAttackers of the pool-growth specification
MaxGrowRPS == 3      \* largest step rate of the pool-growth specification

\* Measured rates are the rationals n/RateDen.
RateDen == 2

\* spawnThresholdRatio := 0.9, as the fraction ThresholdNum/ThresholdDen.
ThresholdNum == 9
ThresholdDen == 10

Labels == {"a", "b"}
Nil == "nil"

\* A nil *Metrics, and no result held: records, as their values are.
NilRecord == [nil |-> TRUE]

\* What a Do invocation of the Attack under load answers: a call that
\* succeeds under one label, a call that fails under the other.
DoResults == {[label |-> "a", err |-> FALSE], [label |-> "b", err |-> TRUE]}

\* The outcome a unit emits when the per-call timeout fires before Do has
\* returned: an error under no label.
TimedOut == [label |-> "", err |-> TRUE]

\* Clone identities: one per Clone call.  The bootstrap makes one, and a
\* ramp-up step makes at most MaxAttackers more.
Ids == 1..(IF 1 + MaxRamp * MaxPool > MaxGrowPool THEN 1 + MaxRamp * MaxPool
           ELSE MaxGrowPool)

VARIABLES
    oSample,          \* the sample flag
    config,           \* r.config
    pc,               \* position of the runner goroutine
    attackers,        \* r.attackers: sequence of clone ids
    resultsPipeline,  \* r.resultsPipeline: "addResult" or "ramp" (the closure)
    metrics,          \* r.metrics: label -> Metrics
    rampMetrics,      \* the variable rampMetrics captured by the closure
    i, rps, sent,     \* locals of rampUp / fullAttack
    s, wanted,        \* locals of the spawn loop
    q, t,             \* loop positions of quitAttackers / tearDownAttackers
    ustate,           \* per clone: state of its attack goroutine
    ures,             \* per clone: the phase whose dispatch it is serving
    cstate, cres,     \* collectResults goroutine: position and received result
    report,           \* the RunReports returned by run(): none, then one
    \* history variables
    clones, setups,   \* number of Clone / Setup calls
    setupFailed,      \* clones whose Setup returned an error
    doCalls,          \* number of Do invocations started
    nextSent,         \* completed sends on r.next
    quitSent,         \* completed sends on r.quit
    quitGot,          \* per clone: quit signals accepted
    tdCalls,          \* per clone: Teardown calls
    tdErr,            \* clones whose Teardown returned an error
    applied,          \* <<phase of the dispatch, sink>> of every outcome applied
    reports,          \* number of reports produced
    writers,          \* <<task, operation>> of every write to a Metrics record
    gotResults,       \* outcomes received by collectResults
    stepStart,        \* in the spawn loop: pool size, clones and failed Setups
                      \* when the loop began
    doing,            \* clones with a Do still running after its timeout
    aggIn, aggPerm, aggA, aggB, aggK   \* state of the addResult harness (SpecAgg)

runnerVars == <<oSample, config, pc, attackers, resultsPipeline, metrics,
                rampMetrics, i, rps, sent, s, wanted, q, t, ustate, ures,
                cstate, cres, report, clones, setups, setupFailed, doCalls,
                nextSent, quitSent, quitGot, tdCalls, tdErr, applied, reports,
                writers, gotResults, stepStart, doing>>
aggVars == <<aggIn, aggPerm, aggA, aggB, aggK>>
vars == <<runnerVars, aggVars>>

\* ----------------------------------------------------------------- Metrics
NewMetrics == [Requests |-> 0, Errors |-> 0, Rate |-> 0]

\* Metrics.add: count the call, count its error.
add(m, r) ==
    [m EXCEPT !.Requests = @ + 1,
              !.Errors = IF r.err THEN @ + 1 ELSE @]

\* Metrics.updateLatencies: derive Rate = Requests / elapsed.  The elapsed
\* window is the clock's, so a record with requests gets any positive rate.
Rates(m) == IF m.Requests = 0 THEN {0} ELSE 1..MaxRateN
updateLatencies(m, rate) == [m EXCEPT !.Rate = rate]

\* addResult with the map made anew for a label it does not hold.
addResultFreshMap(mm, r) ==
    IF r.label \in DOMAIN mm
    THEN [mm EXCEPT ![r.label] = add(@, r)]
    ELSE [l \in {r.label} |-> add(NewMetrics, r)]

\* runner.addResult on the mapping mm (a function on a subset of Labels).
addResult(mm, r) ==
    IF r.label \in DOMAIN mm
    THEN [mm EXCEPT ![r.label] = add(@, r)]
    ELSE [l \in (DOMAIN mm) \cup {r.label} |->
             IF l = r.label THEN add(NewMetrics, r) ELSE mm[l]]

EmptyMap == [l \in {} |-> NewMetrics]

\* ------------------------------------------------------------------ Config
\* Config.Validate: the configuration invariant.
Validate(c) ==
    /\ c.RPS > 0
    /\ c.MaxAttackers >= 1
    /\ c.RampupTimeSec <= c.AttackTimeSec

\* The configurations of the model.  The full attack lasts no time or some
\* time: how many dispatches some time admits is the clock's (MaxSends).
Configs ==
    [RPS : 0..MaxRPS,
     RampupTimeSec : 0..MaxRamp,
     AttackTimeSec : 0..(MaxRamp + 1),
     MaxAttackers : 0..MaxPool,
     Verbose : BOOLEAN,
     Timeout : BOOLEAN]

\* ------------------------------------------------------------------- Init
AggIdle ==
    /\ aggIn = <<>> /\ aggPerm = <<>>
    /\ aggA = EmptyMap /\ aggB = EmptyMap /\ aggK = 0

\* The runner before Run: nothing created, nothing counted.
RunnerIdle ==
    /\ pc = "Run"
    /\ attackers = <<>>
    /\ resultsPipeline = "addResult"
    /\ metrics = EmptyMap
    /\ rampMetrics = NilRecord
    /\ i = 0 /\ rps = 0 /\ sent = 0 /\ s = 0 /\ wanted = 0
    /\ q = 0 /\ t = 0
    /\ ustate = [id \in Ids |-> "none"]
    /\ ures = [id \in Ids |-> Nil]
    /\ cstate = "off" /\ cres = NilRecord
    /\ report = <<>>
    /\ clones = 0 /\ setups = 0 /\ setupFailed = {}
    /\ doCalls = 0 /\ nextSent = 0 /\ quitSent = 0
    /\ quitGot = [id \in Ids |-> 0]
    /\ tdCalls = [id \in Ids |-> 0]
    /\ tdErr = {}
    /\ applied = {}
    /\ reports = 0
    /\ writers = {}
    /\ gotResults = 0
    /\ stepStart = <<>>
    /\ doing = {}

\* Runs without a per-call timeout.
RunnerInit ==
    /\ oSample \in 0..MaxSample
    /\ config \in {c \in Configs : /\ c.AttackTimeSec - c.RampupTimeSec <= 1
                                   /\ ~c.Timeout}
    /\ RunnerIdle

Init == RunnerInit /\ AggIdle


\* -------------------------------------------------------- variable groups
confV == <<oSample, config>>
loopV == <<i, rps, sent, s, wanted, q, t>>
poolV == <<attackers, clones, setups, setupFailed>>
unitV == <<ustate, ures>>
collV == <<cstate, cres>>
aggrV == <<resultsPipeline, metrics, rampMetrics, applied>>
sigV  == <<doCalls, nextSent, quitSent, quitGot>>
endV  == <<tdCalls, tdErr, report, reports>>
histV == <<writers, gotResults, stepStart, doing>>

\* ------------------------------------------------------------ sample mode
\* Run: the sample flag, Validate, init.
Run ==
    /\ pc = "Run"
    /\ pc' = IF oSample > 0 THEN "test"
             ELSE IF ~Validate(config) THEN "exit"
             ELSE "run"
    /\ UNCHANGED <<confV, loopV, poolV, unitV, collV, aggrV, sigV, endV, histV, aggVars>>

\* test(count): Clone and Setup of the probe; a failed Setup returns.
test ==
    /\ pc = "test"
    /\ clones' = clones + 1
    /\ setups' = setups + 1
    /\ \E ok \in BOOLEAN :
         IF ok
         THEN /\ pc' = "testDo"
              /\ s' = oSample
              /\ setupFailed' = setupFailed
         ELSE /\ pc' = "exit"
              /\ s' = s
              /\ setupFailed' = setupFailed \cup {clones + 1}
    /\ UNCHANGED <<confV, i, rps, sent, wanted, q, t, attackers, unitV, collV,
                   aggrV, sigV, endV, histV, aggVars>>

\* The loop test with >= for >.
testLoopInclusive(n) == n >= 0

\* s > 0, the test of the loop of test(count).
testLoop(n) == n > 0

\* for s := count; s > 0; s-- { probe.Do() }, then the deferred Teardown
\* and os.Exit.
testDo ==
    /\ pc = "testDo"
    /\ IF testLoop(s)
       THEN /\ doCalls' = doCalls + 1
            /\ s' = s - 1
            /\ UNCHANGED <<pc, tdCalls, tdErr>>
       ELSE /\ tdCalls' = [tdCalls EXCEPT ![clones] = @ + 1]
            /\ \E e \in BOOLEAN : tdErr' = IF e THEN tdErr \cup {clones} ELSE tdErr
            /\ pc' = "exit"
            /\ UNCHANGED <<doCalls, s>>
    /\ UNCHANGED <<confV, i, rps, sent, wanted, q, t, poolV, unitV, collV,
                   aggrV, nextSent, quitSent, quitGot, report, reports, histV, aggVars>>

\* ------------------------------------------------------------- full mode
\* run() without the call of quitAttackers.
runOrderNoQuit(step) ==
    CASE step = "rampUp" -> "fullAttack"
      [] step = "fullAttack" -> "tearDownAttackers"
      [] step = "quitAttackers" -> "tearDownAttackers"
      [] step = "tearDownAttackers" -> "reportMetrics"
      [] step = "reportMetrics" -> "done"

\* run() with tearDownAttackers called before quitAttackers.
runOrderTeardownFirst(step) ==
    CASE step = "rampUp" -> "fullAttack"
      [] step = "fullAttack" -> "tearDownAttackers"
      [] step = "tearDownAttackers" -> "quitAttackers"
      [] step = "quitAttackers" -> "reportMetrics"
      [] step = "reportMetrics" -> "done"

\* The order of run(): the step that follows each step.
runOrder(step) ==
    CASE step = "rampUp" -> "fullAttack"
      [] step = "fullAttack" -> "quitAttackers"
      [] step = "quitAttackers" -> "tearDownAttackers"
      [] step = "tearDownAttackers" -> "reportMetrics"
      [] step = "reportMetrics" -> "done"

\* run(): go r.collectResults(), then rampUp.
run ==
    /\ pc = "run"
    /\ cstate' = "recv"
    /\ pc' = "rampUp"
    /\ UNCHANGED <<confV, loopV, poolV, unitV, cres, aggrV, sigV, endV, histV, aggVars>>

\* spawnAttacker without the return on a failed Setup.
registersAlways(ok) == TRUE

\* Whether spawnAttacker registers the clone and starts its goroutine: it
\* returns before that when Setup failed.
registers(ok) == ok

\* spawnAttacker: Clone, Setup; on success register and go attack(...).
spawnAttacker(ok) ==
    LET id == clones + 1 IN
    /\ clones' = id
    /\ setups' = setups + 1
    /\ setupFailed' = IF ok THEN setupFailed ELSE setupFailed \cup {id}
    /\ IF registers(ok)
       THEN /\ attackers' = Append(attackers, id)
            /\ ustate' = [ustate EXCEPT ![id] = "waiting"]
       ELSE /\ attackers' = attackers
            /\ ustate' = ustate

\* rampUp: the bootstrap spawn before the step loop.
rampUp ==
    /\ pc = "rampUp"
    /\ \E ok \in BOOLEAN : spawnAttacker(ok)
    /\ i' = 1
    /\ pc' = "rampStep"
    /\ UNCHANGED <<confV, rps, sent, s, wanted, q, t, ures, collV, aggrV,
                   sigV, endV, histV, aggVars>>

\* The rate of a step without the floor of one.
stepRpsNoFloor(step) == (step * config.RPS) \div config.RampupTimeSec

\* rps := i * RPS / RampupTimeSec; if rps == 0 { rps = 1 }
stepRps(step) ==
    LET r == (step * config.RPS) \div config.RampupTimeSec
    IN IF r = 0 THEN 1 ELSE r

\* rampUp without the restore: the pipeline stays as the last step left it.
keptPipeline == resultsPipeline

\* r.resultsPipeline = r.addResult, after the strategy has run.
restoredPipeline == "addResult"

\* Head of the step loop: a new step redirects the pipeline to a new
\* rampMetrics; after the last step the pipeline is restored and rampUp
\* returns (its locals are gone, and so is the record once no closure in
\* use refers to it).
rampStep ==
    /\ pc = "rampStep"
    /\ IF i <= config.RampupTimeSec
       THEN /\ rampMetrics' = NewMetrics
            /\ resultsPipeline' = "ramp"
            /\ rps' = stepRps(i)
            /\ sent' = 0
            /\ pc' = "rampLoop"
       ELSE /\ resultsPipeline' = restoredPipeline
            /\ rampMetrics' = IF restoredPipeline = "ramp" THEN rampMetrics ELSE NilRecord
            /\ rps' = 0
            /\ sent' = 0
            /\ pc' = runOrder("rampUp")
    /\ UNCHANGED <<confV, i, s, wanted, q, t, poolV, unitV, collV, metrics,
                   applied, sigV, endV, histV, aggVars>>

\* for time.Now().Before(oneSecond): leaving the loop of a ramp-up step.
\* The first test of the one second window passes; later ones are the
\* clock's.  (Staying in the loop is limiter.Take() and the send on r.next:
\* attackNext.)
rampLoop ==
    /\ pc = "rampLoop"
    /\ sent > 0
    /\ pc' = "rampEnd"
    /\ UNCHANGED <<confV, loopV, poolV, unitV, collV, aggrV, sigV, endV, histV, aggVars>>

\* The test with <= for <.
mayGrowInclusive(n) == n <= config.MaxAttackers

\* The maximum applied only where it is logged, in a verbose run.
mayGrowVerbose(n) == n < config.MaxAttackers \/ ~config.Verbose

\* if s < r.config.MaxAttackers
mayGrow(n) == n < config.MaxAttackers

\* wanted without the factor len(r.attackers).
wantedSizeNoPool(target, rate, size) == (target * RateDen) \div rate

\* wanted := int(math.Trunc(float64(rps)/rampMetrics.Rate)) * len(r.attackers)
wantedSize(target, rate, size) == ((target * RateDen) \div rate) * size

\* Rate > 0 && Rate < rps && Rate/rps < spawnThresholdRatio
belowTarget(rate, target) ==
    /\ rate > 0
    /\ rate < target * RateDen
    /\ rate * ThresholdDen < ThresholdNum * target * RateDen

\* End of a step: updateLatencies, then decide whether to grow the pool.
rampEnd ==
    /\ pc = "rampEnd"
    /\ \E rate \in Rates(rampMetrics) :
         /\ rampMetrics' = updateLatencies(rampMetrics, rate)
         /\ IF belowTarget(rate, rps)
            THEN /\ wanted' = wantedSize(rps, rate, Len(attackers))
                 /\ s' = Len(attackers)
                 /\ stepStart' = <<Len(attackers), clones, Cardinality(setupFailed)>>
                 /\ pc' = "spawnLoop"
                 /\ i' = i
            ELSE /\ i' = i + 1
                 /\ pc' = "rampStep"
                 /\ UNCHANGED <<wanted, s, stepStart>>
    /\ writers' = writers \cup {<<"runner", "updateLatencies">>}
    /\ UNCHANGED <<confV, rps, sent, q, t, poolV, unitV, collV,
                   resultsPipeline, metrics, applied, sigV, endV,
                   gotResults, doing, aggVars>>

\* for s := len(r.attackers); s < wanted; s++ { ... }
spawnLoop ==
    /\ pc = "spawnLoop"
    /\ IF s < wanted
       THEN IF mayGrow(s)
            THEN /\ \E ok \in BOOLEAN : spawnAttacker(ok)
                 /\ s' = s + 1
                 /\ UNCHANGED <<pc, i, wanted, stepStart>>
            ELSE IF config.Verbose
                 THEN /\ i' = i + 1
                      /\ pc' = "rampStep"
                      /\ s' = 0 /\ wanted' = 0 /\ stepStart' = <<>>
                      /\ UNCHANGED <<poolV, ustate>>
                 ELSE /\ s' = s + 1
                      /\ UNCHANGED <<pc, i, wanted, stepStart, poolV, ustate>>
       ELSE /\ i' = i + 1
            /\ pc' = "rampStep"
            /\ s' = 0 /\ wanted' = 0 /\ stepStart' = <<>>
            /\ UNCHANGED <<poolV, ustate>>
    /\ UNCHANGED <<confV, rps, sent, q, t, ures, collV, aggrV, sigV,
                   endV, writers, gotResults, doing, aggVars>>

\* fullAttack: leaving for time.Now().Before(doneDeadline), the deadline
\* being AttackTimeSec - RampupTimeSec seconds away.
fullAttack ==
    /\ pc = "fullAttack"
    /\ sent > 0 \/ config.AttackTimeSec - config.RampupTimeSec = 0
    /\ pc' = runOrder("fullAttack")
    /\ sent' = 0
    /\ UNCHANGED <<confV, i, rps, s, wanted, q, t, poolV, unitV, collV, aggrV,
                   sigV, endV, histV, aggVars>>

\* The dispatcher is at r.next <- true: it has passed the test of its loop
\* and limiter.Take().
sending ==
    \/ pc = "rampLoop" /\ sent < MaxSends
    \/ /\ pc = "fullAttack" /\ sent < MaxSends
       /\ config.AttackTimeSec - config.RampupTimeSec > 0

\* ------------------------------------------------- attack (per attacker)
\* One signal on next wakes every unit at its select, as a broadcast would.
attackNextBroadcast(id) ==
    /\ sending
    /\ ustate[id] = "waiting"
    /\ ustate' = [u \in Ids |-> IF ustate[u] = "waiting" THEN "calling"
                                ELSE ustate[u]]
    /\ ures' = [u \in Ids |-> IF ustate[u] = "waiting"
                              THEN (IF pc = "rampLoop" THEN "ramp" ELSE "full")
                              ELSE ures[u]]
    /\ sent' = sent + 1
    /\ nextSent' = nextSent + 1
    /\ doCalls' = doCalls + Cardinality({u \in Ids : ustate[u] = "waiting"})
    /\ UNCHANGED <<confV, pc, i, rps, s, wanted, q, t, poolV, collV, aggrV,
                   quitSent, quitGot, endV, histV, aggVars>>

\* case <-next: the rendezvous with the dispatcher's r.next <- true.  The
\* unit goes on to call Do.
attackNext(id) ==
    /\ sending
    /\ ustate[id] = "waiting"
    /\ ustate' = [ustate EXCEPT ![id] = "calling"]
    /\ ures' = [ures EXCEPT ![id] = IF pc = "rampLoop" THEN "ramp" ELSE "full"]
    /\ sent' = sent + 1
    /\ nextSent' = nextSent + 1
    /\ doCalls' = doCalls + 1
    /\ UNCHANGED <<confV, pc, i, rps, s, wanted, q, t, poolV, collV, aggrV,
                   quitSent, quitGot, endV, histV, aggVars>>

\* Do has returned (or the timeout has fired) and results <- result{...}
\* meets the receive of collectResults; the unit is back at its select.
attackResult(id) ==
    /\ ustate[id] = "calling"
    /\ cstate = "recv"
    /\ \E d \in DoResults \cup (IF config.Timeout THEN {TimedOut} ELSE {}) :
         /\ cres' = [label |-> d.label, err |-> d.err, phase |-> ures[id]]
         /\ doing' = IF d = TimedOut THEN doing \cup {id} ELSE doing
    /\ cstate' = "apply"
    /\ gotResults' = gotResults + 1
    /\ ustate' = [ustate EXCEPT ![id] = "waiting"]
    /\ ures' = [ures EXCEPT ![id] = Nil]
    /\ UNCHANGED <<confV, pc, loopV, poolV, aggrV, sigV, endV,
                   writers, stepStart, aggVars>>

\* A Do that its unit gave up on at the timeout returns; nobody takes its
\* result.
doReturns(id) ==
    /\ id \in doing
    /\ doing' = doing \ {id}
    /\ UNCHANGED <<confV, pc, loopV, poolV, unitV, collV, aggrV, sigV, endV,
                   writers, gotResults, stepStart, aggVars>>

\* One quit signal more than there are units.
quitCountLong == Len(attackers) + 1

\* One quit signal short.
quitCountShort == Len(attackers) - 1

\* for range r.attackers: the number of quit signals quitAttackers sends.
quitCount == Len(attackers)

\* case <-quit: return.  The rendezvous with quitAttackers' r.quit <- true.
attackQuit(id) ==
    /\ pc = "quitAttackers"
    /\ q < quitCount
    /\ ustate[id] = "waiting"
    /\ ustate' = [ustate EXCEPT ![id] = "retired"]
    /\ quitGot' = [quitGot EXCEPT ![id] = @ + 1]
    /\ quitSent' = quitSent + 1
    /\ q' = q + 1
    /\ UNCHANGED <<confV, pc, i, rps, sent, s, wanted, t, poolV, ures, collV,
                   aggrV, doCalls, nextSent, endV, histV, aggVars>>

\* --------------------------------------------------------- collectResults
\* r.resultsPipeline(...): load the function value and call it on the
\* result received.
collectResults ==
    /\ cstate = "apply"
    /\ IF resultsPipeline = "addResult"
       THEN /\ metrics' = addResult(metrics, cres)
            /\ applied' = applied \cup {<<cres.phase, "metrics">>}
            /\ UNCHANGED rampMetrics
       ELSE /\ rampMetrics' = add(rampMetrics, cres)
            /\ applied' = applied \cup {<<cres.phase, "rampMetrics">>}
            /\ UNCHANGED metrics
    /\ cstate' = "recv"
    /\ cres' = NilRecord
    /\ writers' = writers \cup {<<"collectResults", "add">>}
    /\ UNCHANGED <<confV, pc, loopV, poolV, unitV, resultsPipeline, sigV, endV,
                   gotResults, stepStart, doing, aggVars>>

\* ---------------------------------------------------------------- shutdown
\* quitAttackers returns when its loop has sent quitCount signals.
quitAttackers ==
    /\ pc = "quitAttackers"
    /\ q >= quitCount
    /\ pc' = runOrder("quitAttackers")
    /\ UNCHANGED <<confV, loopV, poolV, unitV, collV, aggrV, sigV, endV, histV, aggVars>>

\* tearDownAttackers leaving its loop at the first Teardown error.
afterTeardownAbort(k, err) == IF err THEN Len(attackers) ELSE k + 1

\* The loop position after the Teardown at position k returned err: the
\* error is logged and the loop goes on.
afterTeardown(k, err) == k + 1

\* for i, each := range r.attackers { each.Teardown() }
tearDownAttackers ==
    /\ pc = "tearDownAttackers"
    /\ IF t < Len(attackers)
       THEN \E e \in BOOLEAN :
              /\ tdCalls' = [tdCalls EXCEPT ![attackers[t + 1]] = @ + 1]
              /\ tdErr' = IF e THEN tdErr \cup {attackers[t + 1]} ELSE tdErr
              /\ t' = afterTeardown(t, e)
              /\ pc' = pc
       ELSE /\ pc' = runOrder("tearDownAttackers")
            /\ UNCHANGED <<t, tdCalls, tdErr>>
    /\ UNCHANGED <<confV, i, rps, sent, s, wanted, q, poolV, unitV, collV, aggrV,
                   sigV, report, reports, histV, aggVars>>

\* reportMetrics: updateLatencies on every record, then the RunReport.
reportMetrics ==
    /\ pc = "reportMetrics"
    /\ \E rate \in 0..MaxRateN :
         metrics' = [l \in DOMAIN metrics |->
                       updateLatencies(metrics[l],
                           IF rate \in Rates(metrics[l]) THEN rate ELSE 1)]
    /\ report' = Append(report, [Configuration |-> config, Metrics |-> metrics'])
    /\ reports' = reports + 1
    /\ writers' = IF DOMAIN metrics = {} THEN writers
                   ELSE writers \cup {<<"runner", "updateLatencies">>}
    /\ pc' = runOrder("reportMetrics")
    /\ UNCHANGED <<confV, loopV, poolV, unitV, collV, resultsPipeline,
                   rampMetrics, applied, sigV, tdCalls, tdErr,
                   gotResults, stepStart, doing, aggVars>>

RunnerNext ==
    \/ Run \/ test \/ testDo
    \/ run \/ rampUp \/ rampStep \/ rampLoop \/ rampEnd \/ spawnLoop
    \/ fullAttack
    \/ quitAttackers \/ tearDownAttackers \/ reportMetrics
    \/ collectResults
    \/ \E id \in Ids : attackNext(id)
    \/ \E id \in Ids : attackResult(id)
    \/ \E id \in Ids : attackQuit(id)

Next == RunnerNext

Spec == Init /\ [][Next]_vars

\* -------------------------------------------- runs with a per-call timeout
TimeoutInit ==
    /\ oSample \in 0..MaxSample
    /\ config \in {c \in Configs : /\ c.AttackTimeSec - c.RampupTimeSec <= 1
                                   /\ c.Timeout}
    /\ RunnerIdle
    /\ AggIdle

TimeoutNext ==
    \/ RunnerNext
    \/ \E id \in Ids : doReturns(id)

SpecTimeout == TimeoutInit /\ [][TimeoutNext]_vars

\* ------------------------------------------------------- fair scheduling
\* Every step moves a goroutine: it changes one of the positions.
positions == <<pc, s, t, ustate, cstate, doing>>

\* Runs with and without a per-call timeout.  The Go scheduler runs a
\* goroutine that can run, and a send or receive that has a partner
\* completes: while some step of some goroutine is possible, one is taken.
SpecFair ==
    /\ Init \/ TimeoutInit
    /\ [][TimeoutNext]_vars
    /\ WF_positions(TimeoutNext)

\* ------------------------------------------------ addResult, two orders
\* The outcomes fed to addResult, and the orders of a sequence.
Outcomes == [label : Labels, err : BOOLEAN]
Perms(n) == {f \in [1..n -> 1..n] : \A a, c \in 1..n : f[a] = f[c] => a = c}

\* A sequence of outcomes and one of its permutations; the runner is idle.
AggInit ==
    /\ RunnerInit
    /\ oSample = 0
    /\ config = [RPS |-> 0, RampupTimeSec |-> 0, AttackTimeSec |-> 0,
                 MaxAttackers |-> 0, Verbose |-> FALSE, Timeout |-> FALSE]
    /\ aggIn \in UNION {[1..n -> Outcomes] : n \in 0..MaxSeq}
    /\ aggPerm \in {[k \in 1..Len(aggIn) |-> aggIn[f[k]]] : f \in Perms(Len(aggIn))}
    /\ aggA = EmptyMap /\ aggB = EmptyMap /\ aggK = 0

\* collectResults calling addResult on the next outcome of either order.
AggStep ==
    /\ aggK < Len(aggIn)
    /\ aggK' = aggK + 1
    /\ aggA' = addResult(aggA, aggIn[aggK + 1])
    /\ aggB' = addResult(aggB, aggPerm[aggK + 1])
    /\ UNCHANGED <<aggIn, aggPerm, runnerVars>>

AggNext == AggStep

SpecAgg == AggInit /\ [][AggNext]_vars

\* --------------------------------------------- the rate of a linear step
\* A target rate and a number of steps; the step loop has not begun.
RpsInit ==
    /\ oSample = 0
    /\ config \in [RPS : 1..MaxStepRPS, RampupTimeSec : 1..MaxSteps,
                   AttackTimeSec : {MaxSteps}, MaxAttackers : {1},
                   Verbose : {FALSE}, Timeout : {FALSE}]
    /\ RunnerIdle
    /\ AggIdle

\* for i := 1; i <= RampupTimeSec; i++ { rps := ... }: the rate of the
\* next step, and nothing else of the step.
RpsStep ==
    /\ i < config.RampupTimeSec
    /\ i' = i + 1
    /\ rps' = stepRps(i + 1)
    /\ UNCHANGED <<confV, pc, sent, s, wanted, q, t, poolV, unitV, collV,
                   aggrV, sigV, endV, histV, aggVars>>

RpsNext == RpsStep

SpecRps == RpsInit /\ [][RpsNext]_vars

\* ------------------------------------------------- the growth of a step
\* The end of a ramp-up second: the send loop has been left after one
\* dispatch, whose outcome has been applied or whose call is still on; the
\* pool holds size units, none of whose Setups failed.
RampInit ==
    /\ oSample = 0
    /\ config \in [RPS : 1..MaxGrowRPS, RampupTimeSec : {1},
                   AttackTimeSec : {1}, MaxAttackers : 1..MaxGrowPool,
                   Verbose : BOOLEAN, Timeout : {FALSE}]
    /\ pc = "rampEnd"
    /\ \E size \in 1..config.MaxAttackers, back \in BOOLEAN :
         /\ attackers = [k \in 1..size |-> k]
         /\ clones = size /\ setups = size
         /\ ustate = [id \in Ids |-> IF id > size THEN "none"
                                      ELSE IF id = 1 /\ ~back THEN "calling"
                                      ELSE "waiting"]
         /\ ures = [id \in Ids |-> IF id = 1 /\ ~back THEN "ramp" ELSE Nil]
         /\ rampMetrics = IF back THEN add(NewMetrics, [err |-> FALSE])
                          ELSE NewMetrics
         /\ gotResults = IF back THEN 1 ELSE 0
         /\ applied = IF back THEN {<<"ramp", "rampMetrics">>} ELSE {}
         /\ writers = IF back THEN {<<"collectResults", "add">>} ELSE {}
    /\ setupFailed = {}
    /\ resultsPipeline = "ramp"
    /\ metrics = EmptyMap
    /\ i = 1 /\ rps = stepRps(1) /\ sent = 1 /\ s = 0 /\ wanted = 0
    /\ q = 0 /\ t = 0
    /\ cstate = "recv" /\ cres = NilRecord
    /\ report = <<>>
    /\ doCalls = 1 /\ nextSent = 1 /\ quitSent = 0
    /\ quitGot = [id \in Ids |-> 0]
    /\ tdCalls = [id \in Ids |-> 0]
    /\ tdErr = {}
    /\ reports = 0
    /\ stepStart = <<>>
    /\ doing = {}
    /\ AggIdle

\* The rest of the step: updateLatencies, the test of the rate, the spawn
\* loop.
RampNext == rampEnd \/ spawnLoop

SpecRamp == RampInit /\ [][RampNext]_vars

\* ------------------------------------------------------------ properties
Registered == {attackers[k] : k \in 1..Len(attackers)}
Started == {id \in Ids : ustate[id] # "none"}
FullMode == oSample = 0 /\ Validate(config)
AfterQuit == pc \in {"tearDownAttackers", "reportMetrics", "done"}

\* C1: if every Setup call fails, the run still completes: until the report
\* is produced some step can always be taken (the runner never blocks for
\* ever on a dispatch send), and the report then holds an empty metrics
\* mapping.
C1_AllSetupsFailRunCompletes ==
    (FullMode /\ clones > 0 /\ Cardinality(setupFailed) = clones) =>
        /\ pc = "done" \/ ENABLED Next
        /\ pc = "done" => report[1].Metrics = EmptyMap

\* C2: quitAttackers sends exactly one quit signal per started unit: no unit
\* accepts two, after it returns every started unit is Retired and has
\* accepted one, and while it still has a signal to send some unit is left
\* to accept it.
C2_OneQuitPerUnit ==
    /\ \A id \in Ids : quitGot[id] <= 1
    /\ AfterQuit =>
         /\ \A id \in Started : ustate[id] = "retired" /\ quitGot[id] = 1
         /\ quitSent = Cardinality(Started)
    /\ (pc = "quitAttackers" /\ q < quitCount) =>
         \E id \in Started : ustate[id] \in {"waiting", "calling"}

C2_Witness ==
    /\ pc = "tearDownAttackers"
    /\ Len(attackers) = 2
    /\ quitSent = 2
    /\ \A id \in Registered : ustate[id] = "retired"

\* C3: the outcome of a call dispatched during a ramp-up step is never added
\* to the cumulative label-to-Metrics mapping.
C3_NoRampSampleInMetrics == <<"ramp", "metrics">> \notin applied

\* C4: the outcome of a call dispatched during the steady-state phase is
\* never added to a ramp-up step's transient record: it is added, by
\* addResult, to the cumulative mapping.
C4_NoSteadySampleInRampMetrics == <<"full", "rampMetrics">> \notin applied

C4_Witness ==
    /\ config.RampupTimeSec >= 1
    /\ <<"ramp", "rampMetrics">> \in applied
    /\ <<"full", "metrics">> \in applied

\* C5: with a valid configuration (max pool size >= 1) the number of
\* registered attackers never exceeds MaxAttackers.
C5_PoolWithinMax ==
    Validate(config) => Len(attackers) <= config.MaxAttackers

\* The pool is full, the spawn loop wants more and goes on without the
\* verbose break.
C5_Witness ==
    /\ pc = "spawnLoop"
    /\ ~config.Verbose
    /\ Len(attackers) = config.MaxAttackers
    /\ config.MaxAttackers < s /\ s < wanted

\* C6: addResult over the same outcomes in two orders ends with the same
\* labels and, for every label, the same call count and error count.
C6_OrderIndependent ==
    aggK = Len(aggIn) =>
        /\ DOMAIN aggA = DOMAIN aggB
        /\ \A l \in DOMAIN aggA :
             /\ aggA[l].Requests = aggB[l].Requests
             /\ aggA[l].Errors = aggB[l].Errors

C6_Witness ==
    /\ aggK = 3 /\ Len(aggIn) = 3
    /\ aggIn # aggPerm
    /\ DOMAIN aggA = Labels
    /\ \E l \in Labels : aggA[l].Requests = 2 /\ aggA[l].Errors = 1

\* C7: in sample mode Run makes one Clone and one Setup, N Do invocations
\* and one Teardown on that instance when Setup succeeds and no Do
\* invocation when it fails; it starts no unit and no consumer, sends no
\* dispatch or quit signal and produces no report.
C7_SampleMode ==
    oSample >= 1 =>
        /\ clones <= 1 /\ setups = clones
        /\ Started = {} /\ attackers = <<>> /\ cstate = "off"
        /\ nextSent = 0 /\ quitSent = 0
        /\ report = <<>> /\ reports = 0 /\ pc # "done"
        /\ \A id \in Ids \ {1} : tdCalls[id] = 0
        /\ pc = "exit" =>
             /\ clones = 1
             /\ IF setupFailed = {}
                THEN doCalls = oSample /\ tdCalls[1] = 1
                ELSE doCalls = 0

C7_Witness ==
    /\ oSample = 3 /\ pc = "exit"
    /\ doCalls = 3 /\ tdCalls[1] = 1

\* C8: the phases come in order and the report is produced once: Teardown
\* is called only when every started unit has accepted its quit signal,
\* the report exists only once Teardown was called on every registered
\* instance, there is one report when the run is done and none before,
\* and no dispatch signal is emitted after the first quit signal.
C8_Order ==
    /\ (\E id \in Ids : tdCalls[id] > 0) =>
          \A id \in Started : ustate[id] = "retired"
    /\ report # <<>> => \A id \in Registered : tdCalls[id] >= 1
    /\ reports = (IF pc = "done" THEN 1 ELSE 0)
    /\ Len(report) = reports

\* C8: C8_Order in every state, and once a quit signal has been sent the
\* number of dispatch signals emitted no longer changes.
C8_PhasesInOrder ==
    /\ []C8_Order
    /\ [][quitSent > 0 => nextSent' = nextSent]_vars

C8_Witness ==
    /\ pc = "done" /\ Len(attackers) = 2
    /\ nextSent >= 2 /\ quitSent = 2

\* C9: a clone whose Setup failed is not registered, has no unit, accepts
\* no quit signal and gets no Teardown; every clone is either registered or
\* failed, and the run goes on.
C9_FailedSetupDiscarded ==
    /\ \A id \in setupFailed :
         /\ id \notin Registered
         /\ ustate[id] = "none"
         /\ quitGot[id] = 0
         /\ tdCalls[id] = 0
    /\ FullMode =>
         /\ Len(attackers) + Cardinality(setupFailed) = clones
         /\ pc # "exit"

\* A failed spawn between two that succeeded cannot happen within one step
\* of the spawn loop; a failed spawn after the bootstrap can.
C9_Witness ==
    /\ pc = "done"
    /\ setupFailed # {}
    /\ Len(attackers) >= 1
    /\ nextSent >= 1

\* C10: tearDownAttackers calls Teardown once on every registered instance
\* whichever of them fail, and the report is still produced.
C10_TeardownBestEffort ==
    /\ \A id \in Ids : tdCalls[id] <= 1
    /\ pc \in {"reportMetrics", "done"} =>
         \A id \in Registered : tdCalls[id] = 1
    /\ pc = "done" => Len(report) = 1

\* The first Teardown failed, the second was still called.
C10_Witness ==
    /\ pc = "done" /\ Len(report) = 1
    /\ Len(attackers) = 2
    /\ attackers[1] \in tdErr
    /\ tdCalls[attackers[2]] = 1

\* C12: in a full run the only task that writes to a Metrics record, the
\* record of a ramp-up step or a record of the cumulative map, is the
\* goroutine of collectResults; the runner goroutine writes to none.
C12_SingleWriter ==
    FullMode => \A w \in writers : w[1] = "collectResults"

\* C13: updateLatencies runs on a record, at the end of a ramp-up step or
\* for the report, only when collectResults holds no outcome that it has
\* received and not yet applied.
C13_FinalizeAfterApply ==
    [][(/\ \/ pc = "rampEnd"
           \/ pc = "reportMetrics" /\ DOMAIN metrics # {}
        /\ pc' # pc)
       => cstate # "apply"]_vars


\* The units in state Calling.
Calling == {id \in Ids : ustate[id] = "calling"}

\* C14: dispatch is a synchronous handoff.  A send on next completes in
\* the step in which one unit, and no other, goes from Waiting to Calling;
\* the Do invocations started are as many as the sends completed; the
\* units Calling are never more than the pool; and while every unit is
\* Calling no send completes.
C14_Counts ==
    FullMode => /\ doCalls = nextSent
                /\ Cardinality(Calling) <= Len(attackers)

C14_SynchronousHandoff ==
    /\ []C14_Counts
    /\ [][nextSent' # nextSent =>
            /\ nextSent' = nextSent + 1
            /\ \E id \in Ids :
                 /\ ustate[id] = "waiting"
                 /\ ustate' = [ustate EXCEPT ![id] = "calling"]]_vars
    /\ [][Calling = Started => nextSent' = nextSent]_vars

\* C14 witness: the dispatcher of the steady state is at its send and the
\* one unit of the pool is still in the call of an earlier dispatch.
C14_Witness ==
    /\ FullMode /\ sending /\ pc = "fullAttack"
    /\ Started # {} /\ Calling = Started /\ doCalls >= 1

\* C15: a unit retires from Waiting only, never from Calling, so the
\* outcome of its last call has been received by collectResults before its
\* quit; every dispatch accepted has its one outcome received, at the
\* latest, when the report is assembled.
C15_Outcomes ==
    FullMode => /\ gotResults + Cardinality(Calling) = nextSent
                /\ (pc = "reportMetrics" \/ report # <<>>)
                      => gotResults = nextSent

C15_NoRetireWhileCalling ==
    /\ []C15_Outcomes
    /\ [][\A id \in Ids :
             (ustate'[id] = "retired" /\ ustate[id] # "retired")
               => ustate[id] = "waiting"]_vars

\* C15 witness: the quit fan-out has begun, one unit has retired and
\* another is still in a call.
C15_Witness ==
    /\ pc = "quitAttackers"
    /\ \E a, c \in Ids : ustate[a] = "retired" /\ ustate[c] = "calling"


\* C16: in the linear ramp-up with target rate R >= 1 and N >= 1 steps the
\* rate of step i, 1 <= i <= N, is max(1, floor(i * R / N)); it is at least
\* one, at most R, equal to R at step N, and the rate of the next step is
\* never less.
C16_StepRate ==
    LET R == config.RPS
        N == config.RampupTimeSec
        floor == (i * R) \div N
    IN i >= 1 =>
         /\ rps = IF floor > 1 THEN floor ELSE 1
         /\ rps >= 1
         /\ rps <= R
         /\ i = N => rps = R
         /\ i < N => stepRps(i + 1) >= rps

\* C16 witness: the last of three or more steps, of a run whose first
\* step was raised to one.
C16_Witness ==
    /\ i = config.RampupTimeSec /\ i >= 3
    /\ config.RPS = 2 /\ rps = 2


\* The smaller and the larger of two numbers.
Min(a, c) == IF a < c THEN a ELSE c
Max(a, c) == IF a > c THEN a ELSE c

\* floor(t / a) * p, for the step's target t, the measured rate a of the
\* step and the pool size p at the end of the step.
WantedOf(p) == ((rps * RateDen) \div rampMetrics.Rate) * p

\* The measured rate is positive and below 90% of the target.
Below90 ==
    /\ rampMetrics.Rate > 0
    /\ 10 * rampMetrics.Rate < 9 * rps * RateDen

\* C17, in the spawn loop: the loop runs only for a rate that is positive
\* and below 90% of the target; the Setups attempted so far fill the pool
\* up to min(s, max pool size), and when none failed the pool has grown by
\* as many.
C17_InLoop ==
    pc = "spawnLoop" =>
      LET p == stepStart[1]
          tries == clones - stepStart[2]
          failed == Cardinality(setupFailed) - stepStart[3]
      IN /\ Below90
         /\ wanted = WantedOf(p)
         /\ tries = Max(0, Min(s, config.MaxAttackers) - p)
         /\ Len(attackers) = p + tries - failed

\* C17: at the end of a linear step with target t, measured rate a and pool
\* size p, if a is positive and below 90% of t, Setups are attempted up to
\* the size min(floor(t/a) * p, max pool size), and when all succeed the
\* pool size becomes max(p, min(floor(t/a) * p, max pool size)); if a is
\* zero or at least 90% of t nothing is spawned and the pool is unchanged.
C17_GrowthOfStep ==
    /\ []C17_InLoop
    /\ [][pc = "rampEnd" /\ pc' # pc =>
            IF rampMetrics'.Rate > 0
               /\ 10 * rampMetrics'.Rate < 9 * rps * RateDen
            THEN pc' = "spawnLoop"
            ELSE pc' = "rampStep" /\ attackers' = attackers
                 /\ clones' = clones]_vars
    /\ [][pc = "spawnLoop" /\ pc' # pc =>
            LET p == stepStart[1]
                goal == Min(WantedOf(p), config.MaxAttackers)
            IN /\ clones - stepStart[2] = Max(0, goal - p)
               /\ Cardinality(setupFailed) = stepStart[3]
                    => Len(attackers') = Max(p, goal)]_vars

\* C17 witness: a pool of two has grown to four, every Setup succeeding.
C17_Witness ==
    /\ pc = "spawnLoop" /\ s = wanted
    /\ stepStart[1] = 2 /\ Len(attackers) = 4 /\ setupFailed = {}


\* The spawn loop of runner.go:156-165 as a function of the flag: from the
\* loop counter sv, the pool size and the Setups tried so far, with ok[k]
\* the outcome of the k-th Setup, the pair <<Setups tried, pool size>> the
\* loop ends with.
RECURSIVE growLoop(_, _, _, _, _, _)
growLoop(sv, want, size, tries, verbose, ok) ==
    IF sv < want
    THEN IF sv < config.MaxAttackers
         THEN growLoop(sv + 1, want, IF ok[tries + 1] THEN size + 1 ELSE size,
                       tries + 1, verbose, ok)
         ELSE IF verbose THEN <<tries, size>>
              ELSE growLoop(sv + 1, want, size, tries, verbose, ok)
    ELSE <<tries, size>>

\* C18: Verbose has no effect on pool growth.  When the spawn loop of a
\* step ends, the Setups it tried and the pool size it leaves are those of
\* the loop run with either value of the flag on the same rate, pool and
\* Setup outcomes; and the loop ends in both cases: every pass moves s one
\* closer to wanted, and from the maximum on no pass spawns.
C18_VerboseNoEffect ==
    /\ [][pc = "spawnLoop" /\ pc' # pc =>
            LET p == stepStart[1]
                ok == [k \in 1..(MaxGrowPool + 1) |->
                         (stepStart[2] + k) \notin setupFailed]
            IN \A verbose \in BOOLEAN :
                 growLoop(p, WantedOf(p), p, 0, verbose, ok)
                   = <<clones - stepStart[2], Len(attackers)>>]_vars
    /\ [][pc = "spawnLoop" /\ pc' = pc =>
            /\ s' = s + 1 /\ s' <= wanted
            /\ s >= config.MaxAttackers => clones' = clones]_vars

\* C18 witness: a run that is not verbose is past the maximum and still in
\* the loop.
C18_Witness ==
    /\ pc = "spawnLoop" /\ ~config.Verbose
    /\ s > config.MaxAttackers /\ s < wanted
    /\ clones > stepStart[2]


\* A full run whose bootstrap Setup succeeded.
Bootstrapped == FullMode /\ 1 \in Registered

\* The run is over: every unit Retired, Teardown called on every instance
\* of the pool, the report returned.
Finished ==
    /\ pc = "done" /\ report # <<>>
    /\ \A id \in Registered : ustate[id] = "retired" /\ tdCalls[id] = 1

\* C19: with a valid configuration and a bootstrap Setup that succeeds, a
\* run under fair scheduling terminates: no state before the report has
\* the runner, every unit and collectResults all blocked, and the run
\* reaches the state with every unit Retired, Teardown called on every
\* instance and the report returned.
C19_NoneBlocked == Bootstrapped => (pc = "done" \/ ENABLED Next)

C19_Terminates ==
    /\ []C19_NoneBlocked
    /\ Bootstrapped ~> Finished

\* C19 witness: a run of two units that dispatched in ramp-up and in the
\* steady state is over.
C19_Witness ==
    /\ Bootstrapped /\ Finished
    /\ Len(attackers) = 2 /\ nextSent = 2


\* C20: Teardown is called on an instance only when no Do invocation on
\* that instance is executing: neither the call its unit is waiting for nor
\* a call the unit gave up on at the per-call timeout.
C20_NoTeardownDuringDo ==
    [][\A id \in Ids :
         tdCalls'[id] > tdCalls[id]
           => (ustate[id] # "calling" /\ id \notin doing)]_vars

====
